---- MODULE Spec2Model ----
(***************************************************************************)
(* speedgrabber: the bounded-concurrency upload scheduler                  *)
(* (uploadFilesToS3, in its per-file and its per-first-level-folder        *)
(* version) and the parallel directory walker (scanDirectoryParallel)      *)
(* with the FileStructure aggregator.                                      *)
(*                                                                         *)
(* Time is counted in units of TimeUnitMs milliseconds.  A timer of the    *)
(* event loop is a countdown: its callback runs once the countdown is      *)
(* <= 0, never earlier, and expired timers run in the order of their       *)
(* expiry.  Callbacks normally run on time (Tick); once in a run the event *)
(* loop may run no callback at all for StallTicks units (the process is    *)
(* stopped, swapped out or blocked), after which the expired timers run    *)
(* late (Stall).                                                           *)
(***************************************************************************)
EXTENDS Integers, Sequences, FiniteSets, TLC

(* ------------------------------ bounds -------------------------------- *)
\* the largest number of transfer units (files or first-level folders)
MaxUnits == 3
\* the largest number of first-level directories of a scanned tree
MaxDirs == 3
\* the length, in time units, of the one stall of the event loop
StallTicks == 13

(* ------------------------- program constants -------------------------- *)
TimeUnitMs == 10 * 1000
\* execAsync(..., { timeout: 10000 }) of checkFileExistsInS3
CheckTimeout == 10000 \div TimeUnitMs
\* execAsync(command, { timeout: 60000 }) of uploadFileToS3
FileTimeout == 60000 \div TimeUnitMs
\* mutant: a round deadline of the per-file uploader shorter than the timer of one copy
FileBatchTimeoutShort == 50000 \div TimeUnitMs
\* setTimeout(..., 180000) of the per-file processUploads
FileBatchTimeout == 180000 \div TimeUnitMs
\* execAsync(command, { timeout: 300000, ... }) of uploadDirectoryToS3
DirTimeout == 300000 \div TimeUnitMs
\* setTimeout(..., 600000) of the per-folder processUploads
DirBatchTimeout == 600000 \div TimeUnitMs
\* ... ? maxConcurrent : 5
DefaultConcurrent == 5

NullPath == 0

VARIABLES
  \* ---- uploadFilesToS3 ----
  mode,               \* "file": the per-file uploader, "folder": the per-folder one
  checkExist,         \* options.checkExist
  maxConcurrent,      \* the argument: [isNumber, value]
  existsInS3,         \* environment: does the destination hold unit u
  files,              \* fileStructure.files: [filepath, size, status, error]
  folders,            \* fileStructure.firstLevelFolders: [path, fileCount, totalSize]
  uploadQueue,        \* the queue of unit indexes still to dispatch
  result,             \* per unit: what its uploadFileToS3 / uploadDirectoryToS3 call holds or returned
  proc,               \* per unit: the child process its call is awaiting
  timer,              \* per unit: countdown of the execAsync timer of that process
  launchRound,        \* per unit: the round that dispatched it, 0 when none
  cpCalls,            \* per unit: how many `aws s3 cp` commands were executed for it
  completedUploads,
  totalBytesUploaded,
  folderStatus,       \* [ready, transfer, done, failed]
  pc,                 \* position of the coordinator
  round,              \* number of processUploads calls that dispatched a batch
  batchTimer,         \* countdown of the batchTimeout timer of the current round
  batches,            \* per round, the sequence of units it dequeued
  roundEnd,           \* per round, how it ended: "all" or "timeout"
  stalled,            \* the event loop has been stalled once
  outcome,            \* per unit, what ended its transfer: "found" (present at the
                      \* destination), "ok", "exit" (command error) or "timeout"
  abandoned           \* the units still in flight when the deadline of their round ran

uploadVars == <<mode, checkExist, maxConcurrent, existsInS3, files, folders,
                uploadQueue, result, proc, timer, launchRound, cpCalls,
                completedUploads, totalBytesUploaded, folderStatus, pc, round,
                batchTimer, batches, roundEnd, stalled, outcome, abandoned>>

VARIABLES
  \* ---- scanDirectoryParallel ----
  tree,               \* environment: the root directory node with the fixed probe outcomes
  workersOpt,         \* options.workers; 0 stands for every falsy value (absent, NaN, 0)
  cpus,               \* os.cpus().length
  fileStructure,      \* the FileStructure instance
  dirQueue,           \* paths of the first-level directories not yet given to a worker
  workers,            \* the worker threads of the current batch: [dir, state]
  spc,                \* position of the scan coordinator
  workerErrors,       \* number of worker `error` events so far
  erroredDirs,        \* the directories whose worker ended with an `error` event
  started             \* the directories given to a worker so far, in that order

scanVars == <<tree, workersOpt, cpus, fileStructure, dirQueue, workers, spc, workerErrors,
              erroredDirs, started>>

VARIABLES
  \* ---- the command line action handler (index.js) ----
  mainPc,             \* position of the action handler
  rootStat,           \* environment: what fs.promises.stat(targetDir) finds
  optUpload,          \* options.upload
  optBucket           \* options.bucket is given

cliVars == <<mainPc, rootStat, optUpload, optBucket>>

VARIABLES
  \* ---- FileStructure called directly ----
  calls               \* the method calls made on fileStructure so far, in their order

vars == <<uploadVars, scanVars, cliVars, calls>>

(* ------------------------------ helpers ------------------------------- *)
Min(a, b) == IF a <= b THEN a ELSE b

RECURSIVE SumOver(_, _)
SumOver(f, S) == IF S = {} THEN 0
                 ELSE LET x == CHOOSE y \in S : TRUE IN f[x] + SumOver(f, S \ {x})

Range(s) == {s[i] : i \in DOMAIN s}

NumUnits == IF mode = "folder" THEN Len(folders) ELSE Len(files)
Units == 1..NumUnits

(* ------------------------- inputs of a run ---------------------------- *)
\* values the caller may pass as maxConcurrent (index.js hands over options.concurrent,
\* which is undefined when -c is not given)
MaxConcurrentInputs ==
  {[isNumber |-> FALSE, value |-> 0], [isNumber |-> TRUE, value |-> 0],
   [isNumber |-> TRUE, value |-> 1], [isNumber |-> TRUE, value |-> 2]}

\* the size of the i-th unit
SizeOf(i) == i

NoResult == [success |-> FALSE, bytesUploaded |-> 0, status |-> "none", error |-> "none"]

\* mutant: the argument is used as it is given
concurrentUploadsAsGiven == maxConcurrent.value

\* typeof maxConcurrent === 'number' && maxConcurrent > 0 ? maxConcurrent : 5
concurrentUploads ==
  IF maxConcurrent.isNumber /\ maxConcurrent.value > 0
  THEN maxConcurrent.value ELSE DefaultConcurrent

\* the state at the call of uploadFilesToS3, after the declarations up to the queue
UploadInit ==
  /\ mode \in {"file", "folder"}
  /\ checkExist \in BOOLEAN
  /\ maxConcurrent \in MaxConcurrentInputs
  /\ \E n \in 0..MaxUnits :
       /\ existsInS3 \in (IF checkExist THEN [1..n -> BOOLEAN] ELSE {[u \in 1..n |-> FALSE]})
       /\ files = IF mode = "file"
                  THEN [u \in 1..n |-> [filepath |-> u, size |-> SizeOf(u),
                                        status |-> "ready", error |-> "none"]]
                  ELSE << >>
       /\ folders = IF mode = "folder"
                    THEN [u \in 1..n |-> [path |-> u, fileCount |-> 1, totalSize |-> SizeOf(u)]]
                    ELSE << >>
       /\ uploadQueue = [u \in 1..n |-> u]
       /\ result = [u \in 1..n |-> NoResult]
       /\ proc = [u \in 1..n |-> "none"]
       /\ timer = [u \in 1..n |-> 0]
       /\ launchRound = [u \in 1..n |-> 0]
       /\ cpCalls = [u \in 1..n |-> 0]
       /\ outcome = [u \in 1..n |-> "none"]
       /\ folderStatus = [ready |-> IF mode = "folder" THEN n ELSE 0,
                          transfer |-> 0, done |-> 0, failed |-> << >>]
  /\ completedUploads = 0
  /\ totalBytesUploaded = 0
  /\ pc = "start"
  /\ round = 0
  /\ batchTimer = 0
  /\ batches = << >>
  /\ roundEnd = << >>
  /\ stalled = FALSE
  /\ abandoned = {}

(* ------------------------------ timers -------------------------------- *)
\* mutant: a call that has settled still counts as running, so its execAsync timer can
\* settle it a second time
RunningOrSettled(u) == proc[u] # "none"

Running(u) == proc[u] \in {"check", "copy"}

\* the countdowns of the timers whose callback can still have an effect
LiveTimers == {timer[u] : u \in {v \in Units : Running(v)}}
              \cup (IF pc = "await" THEN {batchTimer} ELSE {})

\* a timer callback runs no earlier than its expiry, and no later-expiring timer runs before it
TimerMayFire(t) == t <= 0 /\ \A x \in LiveTimers : x >= t

\* d time units pass: every pending timer comes d units closer to (or further past) its expiry
Elapse(d) ==
  /\ timer' = [u \in Units |-> IF Running(u) THEN timer[u] - d ELSE timer[u]]
  /\ batchTimer' = IF pc = "await" THEN batchTimer - d ELSE batchTimer
  /\ UNCHANGED <<mode, checkExist, maxConcurrent, existsInS3, files, folders,
                 uploadQueue, result, proc, launchRound, cpCalls, completedUploads,
                 totalBytesUploaded, folderStatus, pc, round, batches, roundEnd,
                 outcome, abandoned>>
  /\ UNCHANGED <<scanVars, cliVars, calls>>

\* one time unit passes while the event loop is idle: no expired timer is waiting to run
Tick ==
  /\ LiveTimers # {}
  /\ \A x \in LiveTimers : x > 0
  /\ Elapse(1)
  /\ UNCHANGED stalled

\* the event loop runs nothing for StallTicks time units
Stall ==
  /\ LiveTimers # {}
  /\ ~stalled
  /\ stalled' = TRUE
  /\ Elapse(StallTicks)

(* ------------------------- processUploads ----------------------------- *)
\* mutant: the whole queue is taken as one batch
batchSizeAll == Len(uploadQueue)

\* Math.min(concurrentUploads, uploadQueue.length)
batchSize == Min(concurrentUploads, Len(uploadQueue))

\* mutant: processUploads never schedules the next batch
AfterRoundReturns(queue) == "returned"

\* if (uploadQueue.length > 0) setImmediate(processUploads), else processUploads returns
AfterRound(queue) == IF Len(queue) > 0 THEN "immediate" ELSE "returned"

\* mutant: the batch is taken from the end of the queue
DequeuedLast == SubSeq(uploadQueue, Len(uploadQueue) - batchSize + 1, Len(uploadQueue))

\* the units the current round dequeues, and those it launches a transfer for
Dequeued == SubSeq(uploadQueue, 1, batchSize)
Launches(u) == IF mode = "folder" THEN TRUE ELSE files[u].status = "ready"

\* mutant: the last unit of the batch is read without being removed from the queue
QueueKeepsLast == SubSeq(uploadQueue, batchSize, Len(uploadQueue))

\* the queue after the uploadQueue.shift() calls of one round
QueueAfterShift == SubSeq(uploadQueue, batchSize + 1, Len(uploadQueue))

\* one call of processUploads up to its await: dequeue the batch, launch its transfers,
\* arm the batch timer
processUploads ==
  LET batch == Range(Dequeued)
      launched == {u \in batch : Launches(u)}
  IN
  /\ uploadQueue' = QueueAfterShift
  /\ files' = [u \in DOMAIN files |->
                 IF u \in launched THEN [files[u] EXCEPT !.status = "transfer"] ELSE files[u]]
  /\ result' = [u \in Units |->
                  IF u \in launched /\ mode = "folder"
                  THEN [success |-> FALSE, bytesUploaded |-> 0, status |-> "transfer",
                        error |-> "none"]
                  ELSE result[u]]
  /\ proc' = [u \in Units |->
                IF u \in launched
                THEN (IF mode = "file" /\ checkExist THEN "check" ELSE "copy")
                ELSE proc[u]]
  /\ timer' = [u \in Units |->
                 IF u \in launched
                 THEN (IF mode = "folder" THEN DirTimeout
                       ELSE IF checkExist THEN CheckTimeout ELSE FileTimeout)
                 ELSE timer[u]]
  /\ cpCalls' = [u \in Units |->
                   IF u \in launched /\ ~(mode = "file" /\ checkExist)
                   THEN cpCalls[u] + 1 ELSE cpCalls[u]]
  /\ launchRound' = [u \in Units |-> IF u \in launched THEN round + 1 ELSE launchRound[u]]
  /\ completedUploads' = completedUploads + Cardinality(batch \ launched)
  /\ folderStatus' = IF mode = "folder"
                     THEN [folderStatus EXCEPT !.ready = @ - batchSize,
                                               !.transfer = @ + batchSize]
                     ELSE folderStatus
  /\ round' = round + 1
  /\ batches' = Append(batches, Dequeued)
  /\ IF launched = {}
     THEN /\ pc' = AfterRound(uploadQueue')
          /\ roundEnd' = Append(roundEnd, "all")
          /\ batchTimer' = 0
     ELSE /\ pc' = "await"
          /\ roundEnd' = Append(roundEnd, "open")
          /\ batchTimer' = IF mode = "folder" THEN DirBatchTimeout ELSE FileBatchTimeout
  /\ UNCHANGED <<mode, checkExist, maxConcurrent, existsInS3, folders, totalBytesUploaded,
                 stalled, outcome, abandoned>>
  /\ UNCHANGED <<scanVars, cliVars, calls>>

\* uploadFilesToS3 is called: the first processUploads()
Start ==
  /\ pc = "start"
  /\ IF Len(uploadQueue) = 0
     THEN /\ pc' = "returned"
          /\ UNCHANGED <<mode, checkExist, maxConcurrent, existsInS3, files, folders,
                         uploadQueue, result, proc, timer, launchRound, cpCalls,
                         completedUploads, totalBytesUploaded, folderStatus, round,
                         batchTimer, batches, roundEnd, stalled, outcome, abandoned>>
          /\ UNCHANGED <<scanVars, cliVars, calls>>
     ELSE processUploads

\* the setImmediate callback: the next processUploads()
NextBatch ==
  /\ pc = "immediate"
  /\ processUploads

(* --------------------- settlement of one transfer --------------------- *)
\* mutant: the round continues as soon as any of its transfers settles
CompletesRoundAny(u) ==
  /\ pc = "await"
  /\ launchRound[u] = round

\* Promise.all(batch) of the round the coordinator awaits resolves when the call of u,
\* the last unsettled one of that round, settles
CompletesRound(u) ==
  /\ pc = "await"
  /\ launchRound[u] = round
  /\ \A v \in Units \ {u} : launchRound[v] = round => proc[v] = "settled"

\* the continuation of processUploads after `await Promise.race([...])`
RoundContinues(u) ==
  IF CompletesRound(u)
  THEN /\ pc' = AfterRound(uploadQueue)
       /\ roundEnd' = [roundEnd EXCEPT ![round] = "all"]
       /\ batchTimer' = 0
  ELSE UNCHANGED <<pc, roundEnd, batchTimer>>

\* mutant: the size is added whatever the outcome
FileBytesAlways(success, status, size) == size

\* mutant: no size is ever added to the bytes uploaded
FileBytesNone(success, status, size) == 0

\* if (success && file.status === 'done') totalBytesUploaded += file.size
FileBytes(success, status, size) == IF success /\ status = "done" THEN size ELSE 0

\* uploadFileToS3 returns `success` having set file.status (and file.error in its catch);
\* the .then handler of processUploads then counts the file and clears filepath and error
FinishFile(u, success, status, error, how) ==
  /\ result' = [result EXCEPT ![u] = [success |-> success, bytesUploaded |-> 0,
                                      status |-> status, error |-> error]]
  /\ files' = [files EXCEPT ![u] = [filepath |-> NullPath, size |-> files[u].size,
                                    status |-> status, error |-> "null"]]
  /\ completedUploads' = completedUploads + 1
  /\ totalBytesUploaded' = totalBytesUploaded + FileBytes(success, status, files[u].size)
  /\ proc' = [proc EXCEPT ![u] = "settled"]
  /\ timer' = [timer EXCEPT ![u] = 0]
  /\ RoundContinues(u)
  /\ outcome' = [outcome EXCEPT ![u] = how]
  /\ UNCHANGED <<mode, checkExist, maxConcurrent, existsInS3, folders, uploadQueue,
                 launchRound, cpCalls, folderStatus, round, batches, stalled, abandoned>>
  /\ UNCHANGED <<scanVars, cliVars, calls>>

\* mutant: the .then handler without folderStatus.transfer--
FolderStatusAfterKeepsTransfer(res, path) ==
  IF res.success /\ res.status = "done"
  THEN [folderStatus EXCEPT !.done = @ + 1]
  ELSE IF res.status = "failed"
       THEN [folderStatus EXCEPT !.failed = Append(@, path)]
       ELSE folderStatus

\* the buckets after the .then handler of the per-folder processUploads saw `res`
FolderStatusAfter(res, path) ==
  IF res.success /\ res.status = "done"
  THEN [folderStatus EXCEPT !.transfer = @ - 1, !.done = @ + 1]
  ELSE IF res.status = "failed"
       THEN [folderStatus EXCEPT !.transfer = @ - 1, !.failed = Append(@, path)]
       ELSE [folderStatus EXCEPT !.transfer = @ - 1]

\* mutant: the catch of uploadDirectoryToS3 leaves the status of the result untouched
DirResultKeepsStatus(u, ok, error) ==
  IF ok THEN [success |-> TRUE, bytesUploaded |-> folders[u].totalSize,
              status |-> "done", error |-> "none"]
        ELSE [success |-> FALSE, bytesUploaded |-> 0, status |-> "transfer", error |-> error]

\* uploadDirectoryToS3 returns its result object: done with bytesUploaded = folder.totalSize
\* after the command succeeded, failed with the error message from its catch
DirResult(u, ok, error) ==
  IF ok THEN [success |-> TRUE, bytesUploaded |-> folders[u].totalSize,
              status |-> "done", error |-> "none"]
        ELSE [success |-> FALSE, bytesUploaded |-> 0, status |-> "failed", error |-> error]

\* uploadDirectoryToS3 returns and the .then handler of processUploads updates the counters
FinishDir(u, ok, error, how) ==
  LET res == DirResult(u, ok, error) IN
  /\ result' = [result EXCEPT ![u] = res]
  /\ completedUploads' = completedUploads + 1
  /\ folderStatus' = FolderStatusAfter(res, folders[u].path)
  /\ totalBytesUploaded' = totalBytesUploaded +
                             (IF res.success /\ res.status = "done" THEN res.bytesUploaded ELSE 0)
  /\ proc' = [proc EXCEPT ![u] = "settled"]
  /\ timer' = [timer EXCEPT ![u] = 0]
  /\ RoundContinues(u)
  /\ outcome' = [outcome EXCEPT ![u] = how]
  /\ UNCHANGED <<mode, checkExist, maxConcurrent, existsInS3, files, folders, uploadQueue,
                 launchRound, cpCalls, round, batches, stalled, abandoned>>
  /\ UNCHANGED <<scanVars, cliVars, calls>>

\* checkFileExistsInS3 returned false: uploadFileToS3 executes `aws s3 cp` with its 60 s timer
StartCopy(u) ==
  /\ proc' = [proc EXCEPT ![u] = "copy"]
  /\ timer' = [timer EXCEPT ![u] = FileTimeout]
  /\ cpCalls' = [cpCalls EXCEPT ![u] = @ + 1]
  /\ UNCHANGED <<mode, checkExist, maxConcurrent, existsInS3, files, folders, uploadQueue,
                 result, launchRound, completedUploads, totalBytesUploaded, folderStatus,
                 pc, round, batchTimer, batches, roundEnd, stalled, outcome, abandoned>>
  /\ UNCHANGED <<scanVars, cliVars, calls>>

\* the `aws s3api head-object` process exits: with success only when the object is there
\* (then the file is done without a copy), with an error otherwise (404 or any failure)
CheckExit(u, found) ==
  /\ proc[u] = "check"
  /\ found => existsInS3[u]
  /\ IF found THEN FinishFile(u, TRUE, "done", "none", "found") ELSE StartCopy(u)

\* the `aws s3 cp` process exits, with success or with an error
CopyExit(u, ok) ==
  /\ proc[u] = "copy"
  /\ IF mode = "folder"
     THEN FinishDir(u, ok, "exit", IF ok THEN "ok" ELSE "exit")
     ELSE IF ok THEN FinishFile(u, TRUE, "done", "none", "ok")
                ELSE FinishFile(u, FALSE, "failed", "exit", "exit")

\* mutant: the timer rejects with the error of the killed command
TimerErrorAsExit == "exit"

\* reject(new Error(`Command timed out after ${timeout/1000} seconds`))
TimerError == "timeout"

\* mutant: the timeout of the existence check fails the file
ExecTimeoutFailsCheck(u) ==
  /\ u \in Units
  /\ Running(u)
  /\ TimerMayFire(timer[u])
  /\ IF mode = "folder" THEN FinishDir(u, FALSE, TimerError, "timeout")
     ELSE FinishFile(u, FALSE, "failed", TimerError, "timeout")

\* the timer of execAsync runs: the child is killed and the promise rejected
ExecTimeout(u) ==
  /\ u \in Units
  /\ Running(u)
  /\ TimerMayFire(timer[u])
  /\ IF proc[u] = "check" THEN StartCopy(u)
     ELSE IF mode = "folder" THEN FinishDir(u, FALSE, TimerError, "timeout")
          ELSE FinishFile(u, FALSE, "failed", TimerError, "timeout")

\* the batchTimeout timer runs while Promise.all(batch) is pending: the race rejects,
\* the catch logs 'Batch error' and processUploads goes on
BatchTimeout ==
  /\ pc = "await"
  /\ TimerMayFire(batchTimer)
  /\ pc' = AfterRound(uploadQueue)
  /\ roundEnd' = [roundEnd EXCEPT ![round] = "timeout"]
  /\ batchTimer' = 0
  /\ abandoned' = abandoned \cup {u \in Units : launchRound[u] = round /\ Running(u)}
  /\ UNCHANGED <<mode, checkExist, maxConcurrent, existsInS3, files, folders, uploadQueue,
                 result, proc, timer, launchRound, cpCalls, completedUploads,
                 totalBytesUploaded, folderStatus, round, batches, stalled, outcome>>
  /\ UNCHANGED <<scanVars, cliVars, calls>>

(* ====================== the directory walker ========================== *)
(* A path is the sequence of its segments from the scanned root on: the    *)
(* root is <<RootName>>, a first-level directory <<RootName, d>>.  The     *)
(* directories above the root are the same for every path and left out.    *)
RootName == "r"

File(name, size, ok) ==
  [kind |-> "file", name |-> name, size |-> size, ok |-> ok, entries |-> << >>]
Dir(name, ok, entries) ==
  [kind |-> "dir", name |-> name, size |-> 0, ok |-> ok, entries |-> entries]
\* an entry that is neither a directory nor a regular file (symbolic link, socket, ...)
Other(name) ==
  [kind |-> "other", name |-> name, size |-> 0, ok |-> TRUE, entries |-> << >>]

\* the first-level directories a tree is built from; the i-th one holds sizes 20i-10 and 20i
DirShapes == {"two", "nested", "statfail", "unlistable"}
ShapedDir(name, shape, i) ==
  CASE shape = "two" ->
         Dir(name, TRUE, <<File("x", 20 * i - 10, TRUE), File("y", 20 * i, TRUE)>>)
    [] shape = "nested" ->
         Dir(name, TRUE,
             <<File("x", 20 * i - 10, TRUE), Other("l"),
               Dir("s", TRUE, <<File("y", 20 * i, TRUE), Dir("t", FALSE, << >>)>>)>>)
    [] shape = "statfail" ->
         Dir(name, TRUE, <<File("x", 20 * i - 10, TRUE), File("y", 20 * i, FALSE)>>)
    [] shape = "unlistable" ->
         Dir(name, FALSE, <<File("x", 20 * i - 10, TRUE)>>)

DirNames == <<"a", "b", "c", "d", "e">>

\* the trees scanned: a root with k first-level directories of any shapes (the first of
\* them named like the root when sameName), with or without entries of its own, and
\* the root that cannot be listed
Trees ==
  {Dir(RootName, FALSE, << >>)} \cup
  {Dir(RootName, TRUE,
       (IF own THEN <<File("f", 5, TRUE), File("g", 7, FALSE), Other("k")>> ELSE << >>)
       \o [i \in 1..k |-> ShapedDir(IF sameName /\ i = 1 THEN RootName ELSE DirNames[i],
                                    shapes[i], i)]) :
     <<k, shapes, own, sameName>> \in
       UNION {{<<k, sh, o, sn>> : sh \in [1..k -> DirShapes], o \in BOOLEAN,
                                  sn \in (IF k = 0 THEN {FALSE} ELSE BOOLEAN)} :
              k \in 0..MaxDirs}}

(* --------------------------- FileStructure ---------------------------- *)
\* constructor
NewFileStructure ==
  [files |-> << >>, totalSize |-> 0, totalFiles |-> 0, processedDirs |-> 0,
   storeFiles |-> TRUE, firstLevelFolders |-> << >>, rootDirName |-> ""]

setRootDirName(fs, rootDirName) == [fs EXCEPT !.rootDirName = rootDirName]

RECURSIVE SizeSum(_)
SizeSum(batch) == IF batch = << >> THEN 0 ELSE Head(batch).size + SizeSum(Tail(batch))

\* addBatch assigning the totals of the batch instead of adding them
addBatchAssign(fs, filesBatch) ==
  [fs EXCEPT !.files = IF fs.storeFiles THEN @ \o filesBatch ELSE @,
             !.totalSize = SizeSum(filesBatch),
             !.totalFiles = Len(filesBatch)]

addBatch(fs, filesBatch) ==
  [fs EXCEPT !.files = IF fs.storeFiles THEN @ \o filesBatch ELSE @,
             !.totalSize = @ + SizeSum(filesBatch),
             !.totalFiles = @ + Len(filesBatch)]

\* findIndex(f => f.path === folderPath), 0 when there is none
FolderIndex(folderList, folderPath) ==
  IF \E i \in DOMAIN folderList : folderList[i].path = folderPath
  THEN CHOOSE i \in DOMAIN folderList :
         /\ folderList[i].path = folderPath
         /\ \A j \in DOMAIN folderList : folderList[j].path = folderPath => i <= j
  ELSE 0

\* mutant: addFirstLevelFolder without the search for an existing entry
addFirstLevelFolderPush(fs, folderPath, fileCount, totalSize) ==
  [fs EXCEPT !.firstLevelFolders =
               Append(@, [path |-> folderPath, fileCount |-> fileCount, totalSize |-> totalSize])]

addFirstLevelFolder(fs, folderPath, fileCount, totalSize) ==
  LET existingIndex == FolderIndex(fs.firstLevelFolders, folderPath) IN
  IF existingIndex > 0
  THEN [fs EXCEPT !.firstLevelFolders[existingIndex].fileCount = @ + fileCount,
                  !.firstLevelFolders[existingIndex].totalSize = @ + totalSize]
  ELSE [fs EXCEPT !.firstLevelFolders =
                     Append(@, [path |-> folderPath, fileCount |-> fileCount,
                                totalSize |-> totalSize])]

\* mutant: incrementProcessedDirs assigning the count
incrementProcessedDirsAssign(fs, count) == [fs EXCEPT !.processedDirs = count]

incrementProcessedDirs(fs, count) == [fs EXCEPT !.processedDirs = @ + count]

(* --------------------------- worker thread ---------------------------- *)
FileRecord(path, size) == [filepath |-> path, size |-> size, status |-> "ready"]

\* mutant: a failing stat is not caught, Promise.all(statsPromises) rejects and the
\* directory records none of its files
StatFilesAllOrNothing(entries, dirPath) ==
  IF \E i \in DOMAIN entries : entries[i].kind = "file" /\ ~entries[i].ok
  THEN << >>
  ELSE LET fs == SelectSeq(entries, LAMBDA e : e.kind = "file")
       IN [i \in DOMAIN fs |-> FileRecord(dirPath \o <<fs[i].name>>, fs[i].size)]

\* the records of the regular files among `entries` whose stat succeeds, in listing order
RECURSIVE StatFiles(_, _)
StatFiles(entries, dirPath) ==
  IF entries = << >> THEN << >>
  ELSE LET e == Head(entries) IN
       (IF e.kind = "file" /\ e.ok THEN <<FileRecord(dirPath \o <<e.name>>, e.size)>>
        ELSE << >>) \o StatFiles(Tail(entries), dirPath)

\* scanDirectoryWorker(dirPath): what it pushes on filesBatch, and how often it counts a
\* directory; a directory that cannot be listed is counted and yields nothing
RECURSIVE WorkerFiles(_, _), WorkerFilesOf(_, _), WorkerDirs(_), WorkerDirsOf(_)
\* mutant: the entries of a directory are read whether or not it can be listed
WorkerFilesIgnoringError(node, dirPath) ==
  StatFiles(node.entries, dirPath) \o WorkerFilesOf(node.entries, dirPath)

\* mutant: a directory that cannot be listed is not counted
WorkerDirsListedOnly(node) == IF node.ok THEN 1 + WorkerDirsOf(node.entries) ELSE 0

WorkerFiles(node, dirPath) ==
  IF ~node.ok THEN << >>
  ELSE StatFiles(node.entries, dirPath) \o WorkerFilesOf(node.entries, dirPath)
WorkerFilesOf(entries, dirPath) ==
  IF entries = << >> THEN << >>
  ELSE LET e == Head(entries) IN
       (IF e.kind = "dir" THEN WorkerFiles(e, dirPath \o <<e.name>>) ELSE << >>)
       \o WorkerFilesOf(Tail(entries), dirPath)
WorkerDirs(node) == 1 + (IF node.ok THEN WorkerDirsOf(node.entries) ELSE 0)
WorkerDirsOf(entries) ==
  IF entries = << >> THEN 0
  ELSE (IF Head(entries).kind = "dir" THEN WorkerDirs(Head(entries)) ELSE 0)
       + WorkerDirsOf(Tail(entries))

\* path.dirname
Dirname(path) == SubSeq(path, 1, Len(path) - 1)
\* path.relative(from, to).split(path.sep), for `to` below `from`
RelativeParts(from, to) == SubSeq(to, Len(from) + 1, Len(to))

NoParent == << >>

\* getFirstLevelParent(filePath, rootDir, rootDirName); NoParent stands for null
getFirstLevelParent(filePath, rootDir, rootDirName) ==
  LET parts == RelativeParts(rootDir, filePath) IN
  IF Len(parts) > 0 /\ parts[1] = rootDirName /\ Len(parts) > 1
  THEN rootDir \o <<rootDirName, parts[2]>>
  ELSE NoParent

\* folderStats after the files of `batch`: one entry per first-level parent, in the order
\* of its first file
RECURSIVE FolderStats(_, _, _, _)
FolderStats(batch, rootDir, rootDirName, stats) ==
  IF batch = << >> THEN stats
  ELSE LET f == Head(batch)
           firstLevelParent == getFirstLevelParent(f.filepath, rootDir, rootDirName)
           i == FolderIndex(stats, firstLevelParent)
           next == IF firstLevelParent = NoParent THEN stats
                   ELSE IF i > 0
                        THEN [stats EXCEPT ![i].fileCount = @ + 1, ![i].totalSize = @ + f.size]
                        ELSE Append(stats, [path |-> firstLevelParent, fileCount |-> 1,
                                            totalSize |-> f.size])
       IN FolderStats(Tail(batch), rootDir, rootDirName, next)

\* the node of the first-level directory at dirPath
NodeAt(dirPath) ==
  LET i == CHOOSE j \in DOMAIN tree.entries :
             tree.entries[j].kind = "dir" /\ tree.entries[j].name = dirPath[Len(dirPath)]
  IN tree.entries[i]

\* the message a worker started with workerData {dirPath, rootDirName} posts
WorkerMessage(dirPath, rootDirName) ==
  LET filesBatch == WorkerFiles(NodeAt(dirPath), dirPath) IN
  [filesBatch |-> filesBatch,
   processedDirs |-> WorkerDirs(NodeAt(dirPath)),
   folderStats |-> FolderStats(filesBatch, Dirname(dirPath), rootDirName, << >>)]

(* ----------------------- scanDirectoryParallel ------------------------ *)
Max(a, b) == IF a >= b THEN a ELSE b

\* options.workers || Math.max(1, os.cpus().length - 1)
numWorkers == IF workersOpt # 0 THEN workersOpt ELSE Max(1, cpus - 1)

ScanInit ==
  /\ tree \in Trees
  /\ workersOpt \in {0 - 1, 0, 1, 2}
  /\ cpus \in {1, 3}
  /\ fileStructure = NewFileStructure
  /\ dirQueue = << >>
  /\ workers = << >>
  /\ spc = "start"
  /\ workerErrors = 0
  /\ erroredDirs = {}
  /\ started = << >>

\* getSubdirectories over the entries of the root, from the left: a directory is queued
\* and registered with counts 0, a file whose stat succeeds goes to rootFiles
RECURSIVE ListRoot(_, _, _)
ListRoot(entries, dirPath, acc) ==
  IF entries = << >> THEN acc
  ELSE LET e == Head(entries)
           fullPath == dirPath \o <<e.name>>
           next ==
             IF e.kind = "dir"
             THEN [acc EXCEPT !.dirs = Append(@, fullPath),
                              !.fs = addFirstLevelFolder(@, fullPath, 0, 0)]
             ELSE IF e.kind = "file" /\ e.ok
                  THEN [acc EXCEPT !.rootFiles = Append(@, FileRecord(fullPath, e.size))]
                  ELSE acc
       IN ListRoot(Tail(entries), dirPath, next)

\* mutant: getSubdirectories without the addBatch of the files of the root
getSubdirectoriesDirsOnly(fs, dirPath) ==
  IF ~tree.ok THEN [dirs |-> << >>, fs |-> fs]
  ELSE LET r == ListRoot(tree.entries, dirPath, [dirs |-> << >>, rootFiles |-> << >>, fs |-> fs])
       IN [dirs |-> r.dirs, fs |-> r.fs]

\* mutant: the files of the root are registered like first-level folders
RECURSIVE RegisterFiles(_, _)
RegisterFiles(fs, rootFiles) ==
  IF rootFiles = << >> THEN fs
  ELSE RegisterFiles(addFirstLevelFolder(fs, Head(rootFiles).filepath, 1, Head(rootFiles).size),
                     Tail(rootFiles))
getSubdirectoriesFilesAsFolders(fs, dirPath) ==
  IF ~tree.ok THEN [dirs |-> << >>, fs |-> fs]
  ELSE LET r == ListRoot(tree.entries, dirPath, [dirs |-> << >>, rootFiles |-> << >>, fs |-> fs])
       IN [dirs |-> r.dirs,
           fs |-> IF Len(r.rootFiles) > 0
                  THEN RegisterFiles(addBatch(r.fs, r.rootFiles), r.rootFiles) ELSE r.fs]

\* getSubdirectories(dirPath): the directories found and the file structure afterwards;
\* a root that cannot be listed gives no directory and changes nothing
getSubdirectories(fs, dirPath) ==
  IF ~tree.ok THEN [dirs |-> << >>, fs |-> fs]
  ELSE LET r == ListRoot(tree.entries, dirPath, [dirs |-> << >>, rootFiles |-> << >>, fs |-> fs])
       IN [dirs |-> r.dirs,
           fs |-> IF Len(r.rootFiles) > 0 THEN addBatch(r.fs, r.rootFiles) ELSE r.fs]

\* the call up to the dispatch loop: root name, root counted, root listed
ScanStart ==
  /\ spc = "start"
  /\ LET rootPath == <<tree.name>>
         fs1 == incrementProcessedDirs(setRootDirName(fileStructure, tree.name), 1)
         got == getSubdirectories(fs1, rootPath)
     IN /\ fileStructure' = got.fs
        /\ dirQueue' = got.dirs
        /\ spc' = IF Len(got.dirs) = 0 THEN "returned" ELSE "loop"
  /\ UNCHANGED <<tree, workersOpt, cpus, workers, workerErrors, erroredDirs, started>>
  /\ UNCHANGED <<uploadVars, cliVars, calls>>

\* mutant: a worker is started for every queued directory at once
scanBatchSizeAll == Len(dirQueue)

\* Math.min(numWorkers, dirQueue.length)
scanBatchSize == Min(numWorkers, Len(dirQueue))

\* mutant: the scan returns after its first batch
AfterBatchReturns(queue) == "returned"

\* after `await Promise.all(batch)`: the while condition
AfterBatch(queue) == IF Len(queue) > 0 THEN "loop" ELSE "returned"

\* one pass of the while loop up to its await: the next directories get a worker each;
\* a batch size below 1 runs the for loop zero times and the batch is empty
DispatchWorkers ==
  /\ spc = "loop"
  /\ LET n == Max(scanBatchSize, 0) IN
       /\ workers' = [i \in 1..n |-> [dir |-> dirQueue[i], state |-> "running"]]
       /\ dirQueue' = SubSeq(dirQueue, n + 1, Len(dirQueue))
       /\ started' = started \o SubSeq(dirQueue, 1, n)
       /\ spc' = "await"
  /\ UNCHANGED <<tree, workersOpt, cpus, fileStructure, workerErrors, erroredDirs>>
  /\ UNCHANGED <<uploadVars, cliVars, calls>>

\* await Promise.all(batch) of an empty batch: it resolves without any worker event
EmptyBatchResolves ==
  /\ spc = "await"
  /\ workers = << >>
  /\ spc' = AfterBatch(dirQueue)
  /\ UNCHANGED <<tree, workersOpt, cpus, fileStructure, dirQueue, workers, workerErrors,
                 erroredDirs, started>>
  /\ UNCHANGED <<uploadVars, cliVars, calls>>

\* mutant: the worker thread adds to the totals itself while posting its message
WorkerPostsAndCounts(i) ==
  /\ spc = "await"
  /\ i \in DOMAIN workers
  /\ workers[i].state = "running"
  /\ workers' = [workers EXCEPT ![i].state = "posted"]
  /\ fileStructure' = incrementProcessedDirs(fileStructure, 1)
  /\ UNCHANGED <<tree, workersOpt, cpus, dirQueue, spc, workerErrors, erroredDirs, started>>
  /\ UNCHANGED <<uploadVars, cliVars, calls>>

\* the worker thread i has walked its subtree and posts its message
WorkerPosts(i) ==
  /\ spc = "await"
  /\ i \in DOMAIN workers
  /\ workers[i].state = "running"
  /\ workers' = [workers EXCEPT ![i].state = "posted"]
  /\ UNCHANGED <<tree, workersOpt, cpus, fileStructure, dirQueue, spc, workerErrors,
                 erroredDirs, started>>
  /\ UNCHANGED <<uploadVars, cliVars, calls>>

\* mutant: the coordinator goes on as soon as one worker promise resolved
BatchSettlesAny(i) == spc' = AfterBatch(dirQueue)

\* Promise.all(batch) resolves when the last worker promise of the batch resolved
BatchSettles(i) ==
  IF \A j \in DOMAIN workers \ {i} : workers[j].state = "resolved"
  THEN spc' = AfterBatch(dirQueue)
  ELSE spc' = spc

\* addFirstLevelFolder for every entry of folderStats
RECURSIVE ApplyFolderStats(_, _)
ApplyFolderStats(fs, stats) ==
  IF stats = << >> THEN fs
  ELSE ApplyFolderStats(
         addFirstLevelFolder(fs, Head(stats).path, Head(stats).fileCount, Head(stats).totalSize),
         Tail(stats))

\* worker.on('message'): the coordinator applies the batch of worker i
ApplyMessage(fs, data) ==
  LET fs1 == IF Len(data.filesBatch) > 0 THEN addBatch(fs, data.filesBatch) ELSE fs
      fs2 == incrementProcessedDirs(fs1, data.processedDirs)
  IN ApplyFolderStats(fs2, data.folderStats)

OnMessage(i) ==
  /\ spc = "await"
  /\ i \in DOMAIN workers
  /\ workers[i].state = "posted"
  /\ \E data \in {WorkerMessage(workers[i].dir, fileStructure.rootDirName)} :
       fileStructure' = ApplyMessage(fileStructure, data)
  /\ workers' = [workers EXCEPT ![i].state = "resolved"]
  /\ BatchSettles(i)
  /\ UNCHANGED <<tree, workersOpt, cpus, dirQueue, workerErrors, erroredDirs, started>>
  /\ UNCHANGED <<uploadVars, cliVars, calls>>

\* mutant: the error handler terminates the worker without resolving its promise
OnErrorNoResolve(i) ==
  /\ spc = "await"
  /\ i \in DOMAIN workers
  /\ workers[i].state = "running"
  /\ workers' = [workers EXCEPT ![i].state = "dead"]
  /\ workerErrors' = workerErrors + 1
  /\ erroredDirs' = erroredDirs \cup {workers[i].dir}
  /\ UNCHANGED <<tree, workersOpt, cpus, fileStructure, dirQueue, spc, started>>
  /\ UNCHANGED <<uploadVars, cliVars, calls>>

\* worker.on('error'): the thread died before posting; the promise resolves all the same
OnError(i) ==
  /\ spc = "await"
  /\ i \in DOMAIN workers
  /\ workers[i].state = "running"
  /\ workers' = [workers EXCEPT ![i].state = "resolved"]
  /\ workerErrors' = workerErrors + 1
  /\ erroredDirs' = erroredDirs \cup {workers[i].dir}
  /\ BatchSettles(i)
  /\ UNCHANGED <<tree, workersOpt, cpus, fileStructure, dirQueue, started>>
  /\ UNCHANGED <<uploadVars, cliVars, calls>>

\* the scan variables while only the uploader runs, and the other way round
ScanIdle ==
  /\ tree = Dir(RootName, FALSE, << >>)
  /\ workersOpt = 0
  /\ cpus = 1
  /\ fileStructure = NewFileStructure
  /\ dirQueue = << >>
  /\ workers = << >>
  /\ spc = "idle"
  /\ workerErrors = 0
  /\ erroredDirs = {}
  /\ started = << >>

UploadIdle ==
  /\ mode = "file"
  /\ checkExist = FALSE
  /\ maxConcurrent = [isNumber |-> FALSE, value |-> 0]
  /\ existsInS3 = << >>
  /\ files = << >>
  /\ folders = << >>
  /\ uploadQueue = << >>
  /\ result = << >>
  /\ proc = << >>
  /\ timer = << >>
  /\ launchRound = << >>
  /\ cpCalls = << >>
  /\ outcome = << >>
  /\ folderStatus = [ready |-> 0, transfer |-> 0, done |-> 0, failed |-> << >>]
  /\ completedUploads = 0
  /\ totalBytesUploaded = 0
  /\ pc = "idle"
  /\ round = 0
  /\ batchTimer = 0
  /\ batches = << >>
  /\ roundEnd = << >>
  /\ stalled = FALSE
  /\ abandoned = {}

\* no method of the FileStructure has been called directly
NoCalls == calls = << >>

(* ------------------- the command line action handler ------------------- *)
\* the largest number of first-level directories of a tree scanned from the command line
CliMaxDirs == 1

\* mutant: clearFiles resetting the whole structure
clearFilesAndTotals(fs) == NewFileStructure

\* FileStructure.clearFiles
clearFiles(fs) == [fs EXCEPT !.files = << >>]

\* the directory trees, worker counts and --concurrent values of the command line runs
CliTrees == {t \in Trees : Len(SelectSeq(t.entries, LAMBDA e : e.kind = "dir")) <= CliMaxDirs}
CliWorkers == {0 - 1, 2}
CliConcurrentInputs == {[isNumber |-> FALSE, value |-> 0], [isNumber |-> TRUE, value |-> 1]}

\* the process at the call of the action handler
CliInit ==
  /\ mainPc = "start"
  /\ rootStat \in {"missing", "file", "dir"}
  /\ optUpload \in BOOLEAN
  /\ optBucket \in BOOLEAN
  /\ tree \in CliTrees
  /\ workersOpt \in CliWorkers
  /\ cpus = 3
  /\ fileStructure = NewFileStructure
  /\ dirQueue = << >>
  /\ workers = << >>
  /\ spc = "idle"
  /\ workerErrors = 0
  /\ erroredDirs = {}
  /\ started = << >>
  /\ UploadIdle
  /\ NoCalls

\* fs.promises.stat(targetDir) resolves and stats.isDirectory() holds
StatAllowsScan == rootStat = "dir"

\* the handler up to `await scanDirectoryParallel(...)`: a missing path makes stat throw
\* and the catch exits with 1, a path that is no directory exits with 1
CliStart ==
  /\ mainPc = "start"
  /\ IF StatAllowsScan
     THEN /\ mainPc' = "scan"
          /\ fileStructure' = NewFileStructure
          /\ spc' = "start"
     ELSE /\ mainPc' = "exit1"
          /\ UNCHANGED <<fileStructure, spc>>
  /\ UNCHANGED <<rootStat, optUpload, optBucket>>
  /\ UNCHANGED <<tree, workersOpt, cpus, dirQueue, workers, workerErrors, erroredDirs, started>>
  /\ UNCHANGED <<uploadVars, calls>>

\* uploadFilesToS3(fileStructure, ..., options.concurrent, ...) of uploader.js is called:
\* its declarations up to the queue, over fileStructure.firstLevelFolders
CallUpload(mc) ==
  LET n == Len(fileStructure.firstLevelFolders) IN
  /\ mode' = "folder"
  /\ maxConcurrent' = mc
  /\ folders' = fileStructure.firstLevelFolders
  /\ uploadQueue' = [u \in 1..n |-> u]
  /\ existsInS3' = [u \in 1..n |-> FALSE]
  /\ result' = [u \in 1..n |-> NoResult]
  /\ proc' = [u \in 1..n |-> "none"]
  /\ timer' = [u \in 1..n |-> 0]
  /\ launchRound' = [u \in 1..n |-> 0]
  /\ cpCalls' = [u \in 1..n |-> 0]
  /\ outcome' = [u \in 1..n |-> "none"]
  /\ folderStatus' = [ready |-> n, transfer |-> 0, done |-> 0, failed |-> << >>]
  /\ pc' = "start"
  /\ UNCHANGED <<checkExist, files, completedUploads, totalBytesUploaded, round, batchTimer,
                 batches, roundEnd, stalled, abandoned>>

\* the handler after the scan returned: the statistics are printed; without --upload the
\* handler ends, with --upload and no bucket name it exits with 1, else the upload is called
CliAfterScan ==
  /\ mainPc = "scan"
  /\ spc = "returned"
  /\ IF ~optUpload
     THEN mainPc' = "end" /\ UNCHANGED uploadVars
     ELSE IF ~optBucket
          THEN mainPc' = "exit1" /\ UNCHANGED uploadVars
          ELSE /\ mainPc' = "upload"
               /\ \E mc \in CliConcurrentInputs : CallUpload(mc)
  /\ UNCHANGED <<rootStat, optUpload, optBucket>>
  /\ UNCHANGED <<scanVars, calls>>

\* the handler after the upload returned: fileStructure.clearFiles(), process.exit(0)
CliAfterUpload ==
  /\ mainPc = "upload"
  /\ pc = "returned"
  /\ fileStructure' = clearFiles(fileStructure)
  /\ mainPc' = "exit0"
  /\ UNCHANGED <<rootStat, optUpload, optBucket>>
  /\ UNCHANGED <<tree, workersOpt, cpus, dirQueue, workers, spc, workerErrors, erroredDirs, started>>
  /\ UNCHANGED <<uploadVars, calls>>

CliIdle ==
  /\ mainPc = "idle"
  /\ rootStat = "dir"
  /\ optUpload = FALSE
  /\ optBucket = FALSE

(* --------------------------- specification ---------------------------- *)
Init == UploadInit /\ ScanIdle /\ CliIdle /\ NoCalls

Next ==
  \/ Start
  \/ NextBatch
  \/ Tick
  \/ Stall
  \/ \E u \in Units, found \in BOOLEAN : CheckExit(u, found)
  \/ \E u \in Units, ok \in BOOLEAN : CopyExit(u, ok)
  \/ \E u \in Units : ExecTimeout(u)
  \/ BatchTimeout

Spec == Init /\ [][Next]_vars

\* the event loop keeps running what is ready: time passes, expired timers and the
\* setImmediate callback run; no child process is required ever to exit
FairSpec ==
  /\ Spec
  /\ WF_vars(Start)
  /\ WF_vars(NextBatch)
  /\ WF_vars(Tick)
  /\ WF_vars(BatchTimeout)
  /\ \A u \in 1..MaxUnits : WF_vars(ExecTimeout(u))

ScanNext ==
  \/ ScanStart
  \/ DispatchWorkers
  \/ EmptyBatchResolves
  \/ \E i \in 1..MaxDirs : WorkerPosts(i)
  \/ \E i \in 1..MaxDirs : OnMessage(i)
  \/ \E i \in 1..MaxDirs : OnError(i)

\* scanDirectoryParallel alone
WalkerInit == ScanInit /\ UploadIdle /\ CliIdle /\ NoCalls

ScanSpec == WalkerInit /\ [][ScanNext]_vars

\* the coordinator runs whenever it can, every started worker thread ends by posting its
\* message or by an `error` event, and a posted message is delivered
ScanFairSpec ==
  /\ ScanSpec
  /\ WF_vars(ScanStart)
  /\ WF_vars(DispatchWorkers)
  /\ WF_vars(EmptyBatchResolves)
  /\ \A i \in 1..MaxDirs : WF_vars(WorkerPosts(i) \/ OnError(i))
  /\ \A i \in 1..MaxDirs : WF_vars(OnMessage(i))

\* the deadline of a round of the per-folder uploader never runs: the timer of every
\* transfer of the round is armed in the same step with half its delay and runs first
FolderRoundDeadlineNeverRuns == mode = "folder" => ~(pc = "await" /\ TimerMayFire(batchTimer))

\* one run of the command line tool: the handler, the scan it awaits, the upload it awaits
\* (the steps of the per-folder uploader; BatchTimeout is not among them, see above)
CliNext ==
  \/ CliStart
  \/ CliAfterScan
  \/ CliAfterUpload
  \/ ScanStart
  \/ DispatchWorkers
  \/ EmptyBatchResolves
  \/ \E i \in 1..MaxDirs : WorkerPosts(i)
  \/ \E i \in 1..MaxDirs : OnMessage(i)
  \/ \E i \in 1..MaxDirs : OnError(i)
  \/ Start
  \/ NextBatch
  \/ Tick
  \/ Stall
  \/ \E u \in Units, ok \in BOOLEAN : CopyExit(u, ok)
  \/ \E u \in Units : ExecTimeout(u)

CliSpec == CliInit /\ [][CliNext]_vars

(* ------------------ the FileStructure called directly ------------------- *)
\* the largest number of method calls made on one FileStructure
MaxCalls == 4

\* the arguments the calls are made with
FolderPaths == {<<RootName, "a">>, <<RootName, "b">>}
FolderDeltas == {<<0, 0>>, <<1, 10>>, <<2, 5>>}
CallBatches ==
  {<< >>,
   <<FileRecord(<<RootName, "f">>, 0)>>,
   <<FileRecord(<<RootName, "a", "x">>, 5), FileRecord(<<RootName, "a", "y">>, 7)>>}
CallCounts == {1, 2}

Call(op, path, fileCount, totalSize, batch, count) ==
  [op |-> op, path |-> path, fileCount |-> fileCount, totalSize |-> totalSize,
   batch |-> batch, count |-> count]

\* everything but the FileStructure and the log of its calls
CallFrame ==
  /\ UNCHANGED <<tree, workersOpt, cpus, dirQueue, workers, spc, workerErrors, erroredDirs, started>>
  /\ UNCHANGED <<uploadVars, cliVars>>

CallAddFirstLevelFolder(folderPath, fileCount, totalSize) ==
  /\ Len(calls) < MaxCalls
  /\ fileStructure' = addFirstLevelFolder(fileStructure, folderPath, fileCount, totalSize)
  /\ calls' = Append(calls, Call("addFirstLevelFolder", folderPath, fileCount, totalSize,
                                 << >>, 0))
  /\ CallFrame

CallAddBatch(filesBatch) ==
  /\ Len(calls) < MaxCalls
  /\ fileStructure' = addBatch(fileStructure, filesBatch)
  /\ calls' = Append(calls, Call("addBatch", << >>, 0, 0, filesBatch, 0))
  /\ CallFrame

CallIncrementProcessedDirs(count) ==
  /\ Len(calls) < MaxCalls
  /\ fileStructure' = incrementProcessedDirs(fileStructure, count)
  /\ calls' = Append(calls, Call("incrementProcessedDirs", << >>, 0, 0, << >>, count))
  /\ CallFrame

CallClearFiles ==
  /\ Len(calls) < MaxCalls
  /\ fileStructure' = clearFiles(fileStructure)
  /\ calls' = Append(calls, Call("clearFiles", << >>, 0, 0, << >>, 0))
  /\ CallFrame

\* a FileStructure after its constructor, nothing else running
CallInit ==
  /\ fileStructure = NewFileStructure
  /\ calls = << >>
  /\ tree = Dir(RootName, FALSE, << >>)
  /\ workersOpt = 0
  /\ cpus = 1
  /\ dirQueue = << >>
  /\ workers = << >>
  /\ spc = "idle"
  /\ workerErrors = 0
  /\ erroredDirs = {}
  /\ started = << >>
  /\ UploadIdle
  /\ CliIdle

CallNext ==
  \/ \E p \in FolderPaths, d \in FolderDeltas : CallAddFirstLevelFolder(p, d[1], d[2])
  \/ \E b \in CallBatches : CallAddBatch(b)
  \/ \E c \in CallCounts : CallIncrementProcessedDirs(c)
  \/ CallClearFiles

\* any sequence of at most MaxCalls method calls on one FileStructure
CallSpec == CallInit /\ [][CallNext]_vars

(* ============================== claims ================================ *)
\* the status of unit u: file.status in the per-file uploader; in the per-folder one the
\* status of the result object of its uploadDirectoryToS3 call, `ready` before the call
Status(u) ==
  IF mode = "folder"
  THEN (IF launchRound[u] = 0 THEN "ready" ELSE result[u].status)
  ELSE files[u].status

InTransfer == {u \in Units : Status(u) = "transfer"}

\* C1: at every moment the number of units whose transfer has been launched and has not
\* settled (status `transfer`) is at most the concurrency width
C1_TransferWithinWidth == Cardinality(InTransfer) <= concurrentUploads

\* C4: a status only moves ready -> transfer -> {done, failed}; done and failed are final
C4_StatusMonotone ==
  [][\A u \in Units :
       \/ Status(u)' = Status(u)
       \/ Status(u) = "ready" /\ Status(u)' = "transfer"
       \/ Status(u) = "transfer" /\ Status(u)' \in {"done", "failed"}]_vars

\* a run in which a unit was skipped as present, one timed out, and one completed after
\* its round had been left by the deadline
C4_Witness ==
  /\ \E u \in abandoned : Status(u) = "done"
  /\ \E u \in Units : outcome[u] = "found"
  /\ \E u \in Units : outcome[u] = "timeout" /\ Status(u) = "failed"

\* C5: with the existence check enabled and every unit present at the destination, a run
\* executes no transfer and ends with every unit done
C5_AllPresentNoTransfer ==
  (pc = "returned" /\ checkExist /\ \A u \in Units : existsInS3[u])
    => \A u \in Units : cpCalls[u] = 0 /\ Status(u) = "done"

\* ceil(n / c)
RoundsNeeded(n, c) == (n + c - 1) \div c

\* C6: N units with width C are dispatched in ceil(N/C) rounds, all of C units except the
\* last, which takes the remaining N - C*(ceil(N/C)-1)
C6_RoundSizes ==
  LET n == NumUnits
      c == concurrentUploads
      k == RoundsNeeded(n, c)
  IN /\ Len(batches) <= k
     /\ \A r \in 1..Len(batches) :
          Len(batches[r]) = IF r < k THEN c ELSE n - c * (k - 1)
     /\ pc = "returned" => Len(batches) = k

C6_Witness ==
  /\ pc = "returned"
  /\ NumUnits = 3
  /\ concurrentUploads = 2
  /\ Len(batches) = 2 /\ Len(batches[1]) = 2 /\ Len(batches[2]) = 1

C8_RunReturns == <>(pc = "returned" /\ Len(uploadQueue) = 0)

\* the run has returned although a transfer left behind by a round deadline never settled
C8_Witness ==
  /\ pc = "returned" /\ Len(uploadQueue) = 0
  /\ \E r \in DOMAIN roundEnd : roundEnd[r] = "timeout"

\* a transfer left behind by the deadline of its round settles in this step
LateCompletion(u) == u \in abandoned /\ Running(u) /\ proc'[u] = "settled"

\* C9: the completion of a transfer after its round ended by the deadline is ignored: no
\* status, counter or byte total changes
C9_LateCompletionIgnored ==
  [][\A u \in Units :
       LateCompletion(u) =>
         /\ Status(u)' = Status(u)
         /\ completedUploads' = completedUploads
         /\ totalBytesUploaded' = totalBytesUploaded
         /\ folderStatus' = folderStatus]_vars

\* C10: no transfer of a later round is launched while one of an earlier round is in flight
C10_RoundsDoNotOverlap ==
  \A u, v \in Units : Running(u) /\ Running(v) => launchRound[u] = launchRound[v]


(* ------------------------- claims on the walker ------------------------ *)
\* path p lies below the directory q
IsUnder(p, q) == Len(p) > Len(q) /\ SubSeq(p, 1, Len(q)) = q

RecordedUnder(folderPath) ==
  {i \in DOMAIN fileStructure.files : IsUnder(fileStructure.files[i].filepath, folderPath)}

\* C2: when the scan has returned, every folder aggregate holds the number and the size
\* sum of the recorded files below its path
C2_AggregatesMatchRecords ==
  spc = "returned" =>
    \A a \in Range(fileStructure.firstLevelFolders) :
      /\ a.fileCount = Cardinality(RecordedUnder(a.path))
      /\ a.totalSize = SumOver([i \in RecordedUnder(a.path) |-> fileStructure.files[i].size],
                               RecordedUnder(a.path))

\* the files of a tree whose stat succeeds and whose directories, up to the root, can all
\* be listed: their number and the sum of their sizes, computed from the tree alone
RECURSIVE ExpectedFiles(_), ExpectedSize(_)
ExpectedFiles(node) ==
  IF ~node.ok THEN 0
  ELSE SumOver([i \in DOMAIN node.entries |->
                  LET e == node.entries[i] IN
                  IF e.kind = "file" THEN (IF e.ok THEN 1 ELSE 0)
                  ELSE IF e.kind = "dir" THEN ExpectedFiles(e) ELSE 0],
               DOMAIN node.entries)
ExpectedSize(node) ==
  IF ~node.ok THEN 0
  ELSE SumOver([i \in DOMAIN node.entries |->
                  LET e == node.entries[i] IN
                  IF e.kind = "file" THEN (IF e.ok THEN e.size ELSE 0)
                  ELSE IF e.kind = "dir" THEN ExpectedSize(e) ELSE 0],
               DOMAIN node.entries)

TotalsExact ==
  /\ fileStructure.totalFiles = ExpectedFiles(tree)
  /\ fileStructure.totalSize = ExpectedSize(tree)

Dispatches(u) ==
  Cardinality({<<r, i>> \in (DOMAIN batches) \X (1..MaxUnits) :
                 i \in DOMAIN batches[r] /\ batches[r][i] = u})

\* C11: a unit gets one attempt: its transfer command is executed at most once, it is
\* taken from the queue at most once, and a failed unit is not in the queue again
C11_OneAttempt ==
  \A u \in Units :
    /\ cpCalls[u] <= 1
    /\ Dispatches(u) <= 1
    /\ Status(u) = "failed" => u \notin Range(uploadQueue)

\* a run has returned in which a unit failed and a later round was dispatched after it
C11_Witness ==
  /\ pc = "returned"
  /\ \E u \in Units :
       /\ Status(u) = "failed" /\ cpCalls[u] = 1 /\ Dispatches(u) = 1
       /\ launchRound[u] < round

\* the round that took unit u from the queue, 0 while it is queued
DispatchRound(u) ==
  IF \E r \in DOMAIN batches : u \in Range(batches[r])
  THEN CHOOSE r \in DOMAIN batches : u \in Range(batches[r])
  ELSE 0

\* C12: the queue is the unit collection in its order, formed once and drained from the
\* front: a unit never leaves it after a later one, and no unit is ever added to it
C12_FifoQueue ==
  /\ [](/\ uploadQueue = [i \in 1..Len(uploadQueue) |-> NumUnits - Len(uploadQueue) + i]
        /\ \A a, b \in Units :
             (a < b /\ DispatchRound(b) # 0) =>
               (DispatchRound(a) # 0 /\ DispatchRound(a) <= DispatchRound(b)))
  /\ [][Range(uploadQueue') \subseteq Range(uploadQueue)]_vars

\* three units were dispatched over two rounds, the first one before the last one
C12_Witness ==
  /\ pc = "returned"
  /\ NumUnits = 3
  /\ DispatchRound(1) = 1 /\ DispatchRound(2) = 1 /\ DispatchRound(3) = 2

\* the size of unit u: file.size, folder.totalSize
UnitSize(u) == IF mode = "folder" THEN folders[u].totalSize ELSE files[u].size

\* the units whose settlement has been processed with status done
SettledDone == {u \in Units : proc[u] = "settled" /\ Status(u) = "done"}

\* C13: the bytes-transferred counter is the sum of the sizes of the units settled as
\* done; a failed unit adds nothing
C13_BytesOfDoneUnits ==
  totalBytesUploaded = SumOver([u \in SettledDone |-> UnitSize(u)], SettledDone)

\* a run has returned with a done and a failed unit
C13_Witness ==
  /\ pc = "returned"
  /\ totalBytesUploaded > 0
  /\ \E u, v \in Units :
       /\ proc[u] = "settled" /\ Status(u) = "done"
       /\ proc[v] = "settled" /\ Status(v) = "failed"

IsFailed(file) == file.status = "failed"

\* FileStructure.getUploadStatistics over the file records fs: the count of each status
\* and the filepath of every failed file
getUploadStatistics(fs) ==
  [ready |-> Cardinality({i \in DOMAIN fs : fs[i].status = "ready"}),
   transfer |-> Cardinality({i \in DOMAIN fs : fs[i].status = "transfer"}),
   done |-> Cardinality({i \in DOMAIN fs : fs[i].status = "done"}),
   failed |-> [i \in DOMAIN SelectSeq(fs, IsFailed) |-> SelectSeq(fs, IsFailed)[i].filepath]]

\* the list printed under 'Failed uploads:' when the report is made from the given state
FailedReport(m, fs, status) ==
  IF m = "folder" THEN status.failed ELSE getUploadStatistics(fs).failed

\* the path identifier of unit u as handed to the uploader
PathOf(u) == u

\* C14: the failed list of the final report holds the path of every unit whose terminal
\* status is failed, and nothing else
C14_FailedListIsFailedPaths ==
  [][(pc # "returned" /\ pc' = "returned") =>
       LET report == FailedReport(mode', files', folderStatus')
           failedUnits == {u \in Units : Status(u)' = "failed"}
       IN /\ Range(report) = {PathOf(u) : u \in failedUnits}
          /\ Len(report) = Cardinality(failedUnits)]_vars

\* the same for the per-folder uploader alone
FolderFailedListIsFailedPaths ==
  [][(mode = "folder" /\ pc # "returned" /\ pc' = "returned") =>
       LET report == FailedReport(mode', files', folderStatus')
           failedUnits == {u \in Units : Status(u)' = "failed"}
       IN /\ Range(report) = {PathOf(u) : u \in failedUnits}
          /\ Len(report) = Cardinality(failedUnits)]_vars

\* C15: a transfer that fails (command error or timeout) marks its unit failed and does
\* not stop the run: the run returns and every unit has been taken from the queue
C15_FailureDoesNotHalt ==
  /\ [](\A u \in Units : outcome[u] \in {"exit", "timeout"} => Status(u) = "failed")
  /\ (\E u \in Units : Status(u) = "failed")
       ~> (pc = "returned" /\ \A v \in Units : DispatchRound(v) # 0)

\* the run has returned after a unit failed by a command error and another by timeout in
\* the first round, and a unit of a later round was still dispatched and done
C15_Witness ==
  /\ pc = "returned"
  /\ \E u, v, w \in Units :
       /\ outcome[u] = "exit" /\ Status(u) = "failed" /\ DispatchRound(u) = 1
       /\ outcome[v] = "timeout" /\ Status(v) = "failed" /\ DispatchRound(v) = 1
       /\ DispatchRound(w) = 2 /\ Status(w) = "done"

(* --------------------- further claims on the walker --------------------- *)
\* every regular file of the tree below `node` that lies in a chain of listable
\* directories, with the outcome of its stat, read off the tree
RECURSIVE TreeFiles(_, _)
TreeFiles(node, dirPath) ==
  IF ~node.ok THEN {}
  ELSE UNION {LET e == node.entries[i] IN
              IF e.kind = "file"
              THEN {[filepath |-> dirPath \o <<e.name>>, size |-> e.size, ok |-> e.ok]}
              ELSE IF e.kind = "dir" THEN TreeFiles(e, dirPath \o <<e.name>>) ELSE {}
              : i \in DOMAIN node.entries}

\* file f lies in a first-level directory whose worker ended with an error
LostWithWorker(f) == \E d \in erroredDirs : IsUnder(f.filepath, d)

\* the files the scan has to record: stat succeeded, worker of the subtree not lost
FilesToRecord ==
  {f \in TreeFiles(tree, <<tree.name>>) : f.ok /\ ~LostWithWorker(f)}

RecordedPaths == {fileStructure.files[i].filepath : i \in DOMAIN fileStructure.files}

\* C16: a file whose stat fails is recorded nowhere and adds nothing to the totals or to
\* a folder aggregate, and when the scan has returned every other file of its directory
\* and of the rest of the tree is recorded and counted
C16_StatFailureSkipsOnlyTheFile ==
  /\ \A f \in TreeFiles(tree, <<tree.name>>) :
       ~f.ok => /\ f.filepath \notin RecordedPaths
                /\ \A a \in Range(fileStructure.firstLevelFolders) : a.path # f.filepath
  /\ spc = "returned" =>
       /\ RecordedPaths = {f.filepath : f \in FilesToRecord}
       /\ fileStructure.totalFiles = Cardinality(FilesToRecord)
       /\ fileStructure.totalSize = SumOver([f \in FilesToRecord |-> f.size], FilesToRecord)

\* a scan has returned over a tree with a failing stat in the root and one in a
\* first-level directory; the files next to them are recorded
C16_Witness ==
  /\ spc = "returned"
  /\ \E f, g \in TreeFiles(tree, <<tree.name>>) :
       /\ ~f.ok /\ Len(f.filepath) = 2
       /\ ~g.ok /\ Len(g.filepath) = 3
       /\ Dirname(g.filepath) \o <<"x">> \in RecordedPaths
  /\ <<tree.name, "f">> \in RecordedPaths

\* the first-level directories of the tree that cannot be listed
UnlistableDirs ==
  {<<tree.name, tree.entries[i].name>> : i \in {j \in DOMAIN tree.entries :
                                                  tree.entries[j].kind = "dir" /\ ~tree.entries[j].ok}}

\* the coordinator handles in this step the message of the worker of directory d
MessageOf(d) ==
  \E i \in DOMAIN workers :
    /\ workers[i].dir = d /\ workers[i].state = "posted"
    /\ workers'[i].state = "resolved"

\* C17: the message of a first-level directory that cannot be listed adds no record and
\* changes neither the totals nor a folder aggregate; no directory is queued again; and
\* when the scan has returned the files of the other subtrees are recorded
C17_UnlistableSubtreeSkipped ==
  /\ [][/\ \A d \in UnlistableDirs :
             MessageOf(d) =>
               /\ fileStructure'.files = fileStructure.files
               /\ fileStructure'.totalFiles = fileStructure.totalFiles
               /\ fileStructure'.totalSize = fileStructure.totalSize
               /\ fileStructure'.firstLevelFolders = fileStructure.firstLevelFolders
        /\ spc # "start" => Range(dirQueue') \subseteq Range(dirQueue)]_vars
  /\ [](spc = "returned" =>
          /\ \A f \in FilesToRecord : f.filepath \in RecordedPaths
          /\ \A d \in UnlistableDirs :
               /\ RecordedUnder(d) = {}
               /\ \A a \in Range(fileStructure.firstLevelFolders) :
                    a.path = d => a.fileCount = 0 /\ a.totalSize = 0)

\* a scan has returned over a tree whose first first-level directory cannot be listed
\* and whose later ones hold files, which are recorded
C17_Witness ==
  /\ spc = "returned"
  /\ <<tree.name, "a">> \in UnlistableDirs
  /\ erroredDirs = {}
  /\ RecordedUnder(<<tree.name, "b">>) # {}
  /\ RecordedUnder(<<tree.name, "c">>) # {}

\* the worker threads started and not yet handled by the coordinator (message or error)
Unreported == {i \in DOMAIN workers : workers[i].state \in {"running", "posted"}}

\* C18: at every moment of the scan at most W worker threads are started and unreported,
\* W being the pool size in use (no worker at all runs when that size is below 1)
C18_WorkersWithinPool ==
  /\ numWorkers >= 1 => Cardinality(Unreported) <= numWorkers
  /\ numWorkers < 1 => Unreported = {}

\* two workers of a pool of two are running while a third directory waits in the queue
C18_Witness ==
  /\ numWorkers = 2
  /\ Cardinality(Unreported) = 2
  /\ Len(dirQueue) > 0

\* C19: whatever was passed as the worker count, the dispatch loop works with at least
\* one worker slot, so that a pass takes at least one directory from the queue
C19_AtLeastOneSlot == spc = "loop" => (numWorkers >= 1 /\ scanBatchSize >= 1)

\* C20: when every started worker reports, the scan returns, and it has returned only
\* with the queue empty and no started worker unreported
C20_ScanReturns ==
  /\ <>(spc = "returned")
  /\ [](spc = "returned" => (dirQueue = << >> /\ Unreported = {}))

\* the same for the pool sizes of at least 1
ScanReturnsWithPositivePool ==
  /\ <>(spc = "returned" \/ numWorkers < 1)
  /\ [](spc = "returned" => (dirQueue = << >> /\ Unreported = {}))

(* ------------------- claims on the command line handler ----------------- *)
\* no directory has been listed or counted and no transfer command executed
NoWorkDone ==
  /\ spc = "idle"
  /\ fileStructure = NewFileStructure
  /\ pc = "idle"
  /\ \A u \in Units : cpCalls[u] = 0

\* C21: when the run is aborted for a fatal configuration error (root path missing or not
\* a directory, upload requested without a bucket name), no directory has been scanned
\* and no transfer launched
C21_FatalAbortsBeforeWork == mainPc = "exit1" => NoWorkDone

\* the same for the errors of the root path alone
RootErrorAbortsBeforeWork == (mainPc = "exit1" /\ rootStat # "dir") => NoWorkDone

\* an upload without a bucket name launches no transfer
NoBucketNoTransfer ==
  (optUpload /\ ~optBucket) => (pc = "idle" /\ \A u \in Units : cpCalls[u] = 0)

(* ---------------------- claims on the FileStructure --------------------- *)
\* the last method call made on the FileStructure
LastCall == calls[Len(calls)]

\* this step is a call of clearFiles
ClearFilesCalled == Len(calls') = Len(calls) + 1 /\ calls'[Len(calls')].op = "clearFiles"

\* C22: clearFiles empties the stored file records and leaves totalFiles, totalSize,
\* processedDirs, rootDirName and every folder aggregate as they were
C22_ClearFilesKeepsTotals ==
  [][ClearFilesCalled =>
       /\ fileStructure'.files = << >>
       /\ fileStructure'.totalFiles = fileStructure.totalFiles
       /\ fileStructure'.totalSize = fileStructure.totalSize
       /\ fileStructure'.processedDirs = fileStructure.processedDirs
       /\ fileStructure'.rootDirName = fileStructure.rootDirName
       /\ fileStructure'.firstLevelFolders = fileStructure.firstLevelFolders]_vars

\* clearFiles was called on a structure that held records, totals and a folder aggregate
C22_Witness ==
  /\ Len(calls) = 4
  /\ LastCall.op = "clearFiles"
  /\ calls[1].op = "addBatch" /\ Len(calls[1].batch) = 2
  /\ calls[2].op = "addFirstLevelFolder" /\ calls[2].fileCount = 2
  /\ calls[3].op = "incrementProcessedDirs"
  /\ fileStructure.files = << >>
  /\ fileStructure.totalFiles = 2 /\ fileStructure.totalSize = 12
  /\ fileStructure.processedDirs > 0
  /\ Len(fileStructure.firstLevelFolders) = 1

\* the same for the call the action handler makes after the upload
ClearFilesAfterUploadKeepsTotals ==
  [][(mainPc = "upload" /\ mainPc' = "exit0") =>
       /\ fileStructure'.files = << >>
       /\ fileStructure' = [fileStructure EXCEPT !.files = << >>]]_vars

\* the addFirstLevelFolder calls made so far, and those of them for path p
FolderCalls == {i \in DOMAIN calls : calls[i].op = "addFirstLevelFolder"}
FolderCallsFor(p) == {i \in FolderCalls : calls[i].path = p}

\* the folder aggregates as a collection, without their order
Aggregates(fs) == Range(fs.firstLevelFolders)

\* C23: after any calls of addFirstLevelFolder, in any order, there is exactly one folder
\* aggregate per distinct path, holding the sums of the counts and sizes given for that
\* path; and two calls made in either order give the same aggregates
C23_CommutativeUpsert ==
  LET fl == fileStructure.firstLevelFolders IN
  /\ \A p \in {calls[i].path : i \in FolderCalls} :
       Cardinality({j \in DOMAIN fl : fl[j].path = p}) = 1
  /\ \A j \in DOMAIN fl :
       /\ FolderCallsFor(fl[j].path) # {}
       /\ fl[j].fileCount = SumOver([i \in FolderCalls |-> calls[i].fileCount],
                                    FolderCallsFor(fl[j].path))
       /\ fl[j].totalSize = SumOver([i \in FolderCalls |-> calls[i].totalSize],
                                    FolderCallsFor(fl[j].path))
  /\ \A p, q \in FolderPaths, d, e \in FolderDeltas :
       Aggregates(addFirstLevelFolder(addFirstLevelFolder(fileStructure, p, d[1], d[2]),
                                      q, e[1], e[2]))
       = Aggregates(addFirstLevelFolder(addFirstLevelFolder(fileStructure, q, e[1], e[2]),
                                        p, d[1], d[2]))

\* two paths were given alternately, the second one first, with different deltas
C23_Witness ==
  /\ Len(calls) = 4
  /\ \A i \in DOMAIN calls : calls[i].op = "addFirstLevelFolder"
  /\ calls[1].path = <<RootName, "b">> /\ calls[2].path = <<RootName, "a">>
  /\ calls[3].path = <<RootName, "b">> /\ calls[4].path = <<RootName, "a">>
  /\ calls[1].fileCount = 1 /\ calls[3].fileCount = 2
  /\ Len(fileStructure.firstLevelFolders) = 2
  /\ fileStructure.firstLevelFolders[1] =
       [path |-> <<RootName, "b">>, fileCount |-> 3, totalSize |-> 15]

\* the three running totals do not decrease in this step
TotalsDoNotDecrease ==
  /\ fileStructure'.totalFiles >= fileStructure.totalFiles
  /\ fileStructure'.totalSize >= fileStructure.totalSize
  /\ fileStructure'.processedDirs >= fileStructure.processedDirs

\* C24: during a scan totalFiles, totalSize and processedDirs never decrease from one
\* state to the next, whatever batches arrive in whatever order
C24_TotalsMonotone == [][TotalsDoNotDecrease]_vars

\* a scan has returned in which the batch of a later directory arrived before the batch
\* of an earlier one and a worker ended with an error, the totals having grown
C24_Witness ==
  /\ spc = "returned"
  /\ workerErrors = 1
  /\ fileStructure.processedDirs >= 3
  /\ fileStructure.totalFiles >= 3
  /\ \E i, j \in DOMAIN fileStructure.files :
       /\ i < j
       /\ IsUnder(fileStructure.files[i].filepath, <<RootName, "b">>)
       /\ IsUnder(fileStructure.files[j].filepath, <<RootName, "a">>)

\* the same for every sequence of direct calls, with empty batches and files of size 0
TotalsMonotoneForEveryCallSequence ==
  [][Len(calls') > Len(calls) => TotalsDoNotDecrease]_vars

(* ------------------ further claims on the upload rounds ----------------- *)
\* the units the current round launched a transfer for
LaunchedInRound == {u \in Units : launchRound[u] = round}

\* C25: the coordinator leaves the await of a round only when every transfer the round
\* launched has settled or the deadline of the round has expired, and a round is started
\* only by a coordinator that is not awaiting; the settlement of some but not all
\* transfers of a round leaves the coordinator waiting
C25_RoundGranularity ==
  /\ [][(pc = "await" /\ pc' # "await") =>
          \/ \A u \in LaunchedInRound : proc'[u] = "settled"
          \/ batchTimer <= 0]_vars
  /\ [][round' # round => (pc \in {"start", "immediate"} /\ round' = round + 1)]_vars
  /\ [](pc \in {"immediate", "returned"} /\ round > 0 =>
          \/ \A u \in LaunchedInRound : proc[u] = "settled"
          \/ roundEnd[round] = "timeout")

\* the coordinator is waiting for a round of which one transfer has settled and another
\* has not, with a unit left in the queue
C25_Witness ==
  /\ pc = "await"
  /\ Len(uploadQueue) > 0
  /\ \E u, v \in LaunchedInRound : proc[u] = "settled" /\ Running(v)

(* --------------------- further claims on the walker --------------------- *)
\* a worker of the current batch is reported to the coordinator in this step, by its
\* message or by an `error` event
SlotFreed ==
  \E i \in DOMAIN workers :
    /\ workers[i].state \in {"running", "posted"}
    /\ i \in DOMAIN workers' /\ workers'[i].state = "resolved"

\* C26: when a worker has reported while the directory queue is not empty, the coordinator
\* goes on to give the next queued directory a worker, whether or not other workers of
\* the batch are still busy
C26_FreeSlotClaimsNext ==
  [][(SlotFreed /\ Len(dirQueue) > 0) => spc' = "loop"]_vars

\* C26 as amended: the next queued directory is given a worker only when every worker of
\* the current batch has reported; a report that leaves another worker busy leaves the
\* coordinator waiting
C26_SlotClaimsAfterWholeBatch ==
  /\ [][(SlotFreed /\ Len(dirQueue) > 0) =>
          (spc' = "loop" <=> \A i \in DOMAIN workers' : workers'[i].state = "resolved")]_vars
  /\ [](spc = "loop" => Unreported = {})
  /\ [][dirQueue' # dirQueue => spc \in {"start", "loop"}]_vars

\* a worker has reported and the queue is not empty, while another worker of the batch
\* is still busy
C26_Witness ==
  /\ spc = "await"
  /\ Len(dirQueue) > 0
  /\ \E i, j \in DOMAIN workers :
       workers[i].state = "resolved" /\ workers[j].state = "running"

\* a worker thread ends its walk by posting its message in this step
WorkerStep ==
  \E i \in DOMAIN workers : workers[i].state = "running" /\ workers'[i].state = "posted"

\* a worker `error` event is handled in this step
WorkerErrorStep == workerErrors' = workerErrors + 1

\* the coordinator handles the message of a worker in this step
WorkerMessageStep ==
  \E i \in DOMAIN workers : workers[i].state = "posted" /\ workers'[i].state = "resolved"

\* C27: the scan state changes only in the step in which the coordinator lists the root
\* or handles the message of a worker; the steps of a worker thread and a worker `error`
\* event leave files, totalFiles, totalSize, processedDirs and firstLevelFolders as
\* they are
C27_SingleWriter ==
  /\ [][fileStructure' # fileStructure => (spc = "start" \/ WorkerMessageStep)]_vars
  /\ [][(WorkerStep \/ WorkerErrorStep) =>
          /\ fileStructure'.files = fileStructure.files
          /\ fileStructure'.totalFiles = fileStructure.totalFiles
          /\ fileStructure'.totalSize = fileStructure.totalSize
          /\ fileStructure'.processedDirs = fileStructure.processedDirs
          /\ fileStructure'.firstLevelFolders = fileStructure.firstLevelFolders]_vars

\* a worker has posted a message holding files that the coordinator has not handled yet,
\* after another worker ended with an error: the totals are those of the root listing
C27_Witness ==
  /\ workerErrors = 1
  /\ \E i \in DOMAIN workers :
       /\ workers[i].state = "posted"
       /\ Len(WorkerMessage(workers[i].dir, fileStructure.rootDirName).filesBatch) > 0
  /\ fileStructure.processedDirs = 1
  /\ fileStructure.totalFiles = 1

\* read off the tree: the records of the root's own regular files whose stat succeeds,
\* and the paths of the immediate subdirectories of the root, both in listing order
RootOwnFiles ==
  LET own == SelectSeq(tree.entries, LAMBDA e : e.kind = "file" /\ e.ok)
  IN [i \in DOMAIN own |-> FileRecord(<<tree.name, own[i].name>>, own[i].size)]
RootSubdirectories ==
  LET sub == SelectSeq(tree.entries, LAMBDA e : e.kind = "dir")
  IN [i \in DOMAIN sub |-> <<tree.name, sub[i].name>>]

\* C28: listing the root records the root's own files whose stat succeeded, as one batch
\* and before any worker is started, and queues exactly the immediate subdirectories of
\* the root in listing order; an entry that is neither yields no record and no queue entry
C28_RootListing ==
  /\ [][spc = "start" =>
          /\ fileStructure'.files = RootOwnFiles
          /\ fileStructure'.totalFiles = Len(RootOwnFiles)
          /\ fileStructure'.totalSize = SizeSum(RootOwnFiles)
          /\ dirQueue' = RootSubdirectories
          /\ workers' = << >>]_vars
  /\ [](spc = "start" => (workers = << >> /\ fileStructure.files = << >>))
  /\ [](workers # << >> =>
          SubSeq(fileStructure.files, 1, Len(RootOwnFiles)) = RootOwnFiles)

\* the root with a file, a file whose stat fails, another kind of entry and three
\* directories has been listed and the first workers are running
C28_Witness ==
  /\ spc = "await"
  /\ Len(tree.entries) = 6
  /\ Len(RootOwnFiles) = 1
  /\ Len(RootSubdirectories) = 3
  /\ Len(workers) = 2
  /\ dirQueue = <<RootSubdirectories[3]>>
  /\ fileStructure.files = RootOwnFiles

(* ------------- claims on the width and the folder counters ------------- *)
\* the width the claim names for the argument of this run
WidthFor(given) == IF given.isNumber /\ given.value > 0 THEN given.value ELSE 5

\* C29: the width in use is maxConcurrent when that is a number greater than 0 and 5
\* otherwise: every round takes the smaller of that width and the queue length from the
\* queue, and so at least one unit, rounds starting only with a non-empty queue
C29_EffectiveWidth ==
  [][round' # round =>
       /\ Len(uploadQueue) > 0
       /\ Len(batches'[round']) = Min(WidthFor(maxConcurrent), Len(uploadQueue))
       /\ Len(batches'[round']) >= 1
       /\ Len(uploadQueue') = Len(uploadQueue) - Len(batches'[round'])]_vars

\* a run given the number 0 as maxConcurrent has returned after one round of three units
C29_Witness ==
  /\ pc = "returned"
  /\ maxConcurrent.isNumber /\ maxConcurrent.value = 0
  /\ NumUnits = 3
  /\ Len(batches) = 1 /\ Len(batches[1]) = 3

\* C30: in the per-folder uploader ready + transfer + done + the number of failed entries
\* is the number of first-level folders in every state, and no counter is negative
C30_CountersConserved ==
  mode = "folder" =>
    /\ folderStatus.ready + folderStatus.transfer + folderStatus.done
         + Len(folderStatus.failed) = Len(folders)
    /\ folderStatus.ready >= 0
    /\ folderStatus.transfer >= 0
    /\ folderStatus.done >= 0

\* each counter is the number of folders in that status
FolderCountersMatchStatuses ==
  mode = "folder" =>
    /\ folderStatus.ready = Cardinality({u \in Units : Status(u) = "ready"})
    /\ folderStatus.transfer = Cardinality({u \in Units : Status(u) = "transfer"})
    /\ folderStatus.done = Cardinality({u \in Units : Status(u) = "done"})
    /\ Len(folderStatus.failed) = Cardinality({u \in Units : Status(u) = "failed"})

\* the per-folder uploader is in its second round with one folder done, one failed and
\* one in transfer
C30_Witness ==
  /\ mode = "folder"
  /\ pc = "await" /\ round = 2
  /\ folderStatus.ready = 0 /\ folderStatus.transfer = 1 /\ folderStatus.done = 1
  /\ Len(folderStatus.failed) = 1

(* ------------------- claims on the deadlines of a round ----------------- *)
\* a round was ended by its deadline with a transfer of it unsettled
DeadlineEndedARound ==
  \/ \E r \in DOMAIN roundEnd : roundEnd[r] = "timeout"
  \/ abandoned # {}

\* C31: with the deadlines of the code every transfer of a round settles before the
\* deadline of the round, so that no round is ended by its deadline
C31_DeadlineNeverEndsARound == ~DeadlineEndedARound

\* C31 as amended: no round is ended by its deadline in the per-folder uploader, nor in
\* the per-file uploader without the existence check, nor as long as the event loop
\* runs its timers on time
C31_DeadlineNeverEndsATimelyRound ==
  (mode = "folder" \/ ~checkExist \/ ~stalled) => ~DeadlineEndedARound

\* a run has returned in which the event loop stalled and a transfer ran into its own
\* timer, each round having ended with all its transfers settled
C31_Witness ==
  /\ pc = "returned"
  /\ stalled
  /\ round >= 2
  /\ \E u \in Units : outcome[u] = "timeout"
  /\ \A r \in DOMAIN roundEnd : roundEnd[r] = "all"

(* ----------------------- claims on the final report --------------------- *)
\* the four buckets of the final report: folderStatus in the per-folder uploader,
\* getUploadStatistics over the file records in the per-file one
ReportBuckets ==
  IF mode = "folder"
  THEN [ready |-> folderStatus.ready, transfer |-> folderStatus.transfer,
        done |-> folderStatus.done, failed |-> Len(folderStatus.failed)]
  ELSE LET st == getUploadStatistics(files)
       IN [ready |-> st.ready, transfer |-> st.transfer, done |-> st.done,
           failed |-> Len(st.failed)]

\* C32: when the run has reached its final report no unit is ready or in transfer, and
\* done plus failed is the number of units queued
C32_ReportHasOnlyTerminalUnits ==
  pc = "returned" =>
    /\ ReportBuckets.ready = 0
    /\ ReportBuckets.transfer = 0
    /\ ReportBuckets.done + ReportBuckets.failed = NumUnits

\* the units left unsettled by the deadline of their round
StillAbandoned == {u \in abandoned : Running(u)}

\* at the final report no unit is ready, the units in transfer are those left unsettled
\* by the deadline of their round, and done plus failed is the number of the other
\* units; when no round was ended by its deadline that is every unit
ReportBucketsAtReturn ==
  pc = "returned" =>
    /\ ReportBuckets.ready = 0
    /\ ReportBuckets.transfer = Cardinality(StillAbandoned)
    /\ \A u \in Units : Status(u) = "transfer" <=> u \in StillAbandoned
    /\ ReportBuckets.done + ReportBuckets.failed = NumUnits - Cardinality(StillAbandoned)
    /\ ~DeadlineEndedARound => ReportBuckets.done + ReportBuckets.failed = NumUnits

(* ------------------ claims on the dispatch of the walker ---------------- *)
\* how many workers directory d has been given so far
TimesStarted(d) == Cardinality({i \in DOMAIN started : started[i] = d})

\* C33: every first-level subdirectory found by the root listing is given to one worker,
\* once: no directory is given to a worker twice, the workers of a batch hold different
\* directories, only listed directories are given out, and when the scan has returned
\* every listed directory has been given to a worker
C33_EachDirectoryOnce ==
  /\ \A i \in DOMAIN started : TimesStarted(started[i]) = 1
  /\ Range(started) \subseteq Range(RootSubdirectories)
  /\ \A i, j \in DOMAIN workers : workers[i].dir = workers[j].dir => i = j
  /\ \A i \in DOMAIN workers : TimesStarted(workers[i].dir) = 1
  /\ spc = "returned" =>
       \A i \in DOMAIN RootSubdirectories : TimesStarted(RootSubdirectories[i]) = 1

\* a scan of three directories with a pool of two has returned, one worker having
\* ended with an error
C33_Witness ==
  /\ spc = "returned"
  /\ numWorkers = 2
  /\ Len(RootSubdirectories) = 3
  /\ started = RootSubdirectories
  /\ workerErrors = 1

(* ------------------ claims on the directories counted ------------------ *)
\* a directory below the root, named by the positions of its ancestors' entries and its own
RECURSIVE EntryAt(_, _)
EntryAt(node, ip) ==
  IF ip = << >> THEN node ELSE EntryAt(node.entries[Head(ip)], Tail(ip))

\* the directories listed in the directories of `level` that could be read
ListedBelow(level) ==
  {ip \o <<j>> : <<ip, j>> \in
     UNION {{<<q, k>> : k \in {n \in DOMAIN EntryAt(tree, q).entries :
                                 EntryAt(tree, q).entries[n].kind = "dir"}} :
            q \in {r \in level : EntryAt(tree, r).ok}}}

\* the directories below the root whose listing is attempted: those found in a directory
\* that could itself be listed, from the root down
RECURSIVE AttemptedFrom(_)
AttemptedFrom(level) ==
  IF level = {} THEN {} ELSE ListedBelow(level) \cup AttemptedFrom(ListedBelow(level))
AttemptedDirs == AttemptedFrom({<< >>})

\* C34: when the scan has returned and no worker ended with an error, processedDirs is
\* 1 for the root plus the number of directories below the root whose listing was
\* attempted, those that could not be listed included
C34_ProcessedDirsCount ==
  (spc = "returned" /\ workerErrors = 0) =>
    fileStructure.processedDirs = 1 + Cardinality(AttemptedDirs)

\* a scan without worker error has returned, having met a directory below the first
\* level and a first-level directory that cannot be listed
C34_Witness ==
  /\ spc = "returned"
  /\ workerErrors = 0
  /\ \E ip \in AttemptedDirs : Len(ip) = 3
  /\ \E ip \in AttemptedDirs : Len(ip) = 1 /\ ~EntryAt(tree, ip).ok
  /\ fileStructure.processedDirs >= 5

(* ------------------ claims on the folder aggregates --------------------- *)
AggregatePaths ==
  [i \in DOMAIN fileStructure.firstLevelFolders |-> fileStructure.firstLevelFolders[i].path]

\* C35: when the scan has returned, firstLevelFolders holds one aggregate for each
\* immediate subdirectory of the root, in the order of the root listing, and no other
C35_OneAggregatePerSubdirectory ==
  spc = "returned" => AggregatePaths = RootSubdirectories

\* some first-level directory bears the name of the root
SubdirectoryNamedLikeRoot ==
  \E i \in DOMAIN RootSubdirectories : RootSubdirectories[i] = <<tree.name, tree.name>>

\* the aggregates are those of the immediate subdirectories whenever none of them bears
\* the name of the root, and in every case they begin with them
AggregatesOfSubdirectoriesFirst ==
  spc = "returned" =>
    /\ Len(AggregatePaths) >= Len(RootSubdirectories)
    /\ SubSeq(AggregatePaths, 1, Len(RootSubdirectories)) = RootSubdirectories
    /\ ~SubdirectoryNamedLikeRoot => AggregatePaths = RootSubdirectories

(* ------------------ claims on the units of the folder upload ------------ *)
\* the entries of the root that are no directories, by path
RootNonDirectories ==
  {<<tree.name, tree.entries[i].name>> :
     i \in {j \in DOMAIN tree.entries : tree.entries[j].kind # "dir"}}

IsPrefix(p, q) == Len(p) <= Len(q) /\ SubSeq(q, 1, Len(p)) = p

FoundPresent(u) == proc[u] = "check" /\ outcome'[u] = "found"

RECURSIVE SizeOfUnits(_)
SizeOfUnits(S) ==
  IF S = {} THEN 0
  ELSE LET u == CHOOSE v \in S : TRUE IN files[u].size + SizeOfUnits(S \ {u})

\* C37: in the per-file upload a unit whose existence check finds the object ends done and
\* its size is added to totalBytesUploaded although `aws s3 cp` was not started for it; the
\* bytes counted are the sizes of the units found present and of the units copied
C37_FoundCountsAsUploaded ==
  /\ [][\A u \in Units :
          FoundPresent(u) =>
            /\ files'[u].status = "done"
            /\ result'[u].success
            /\ cpCalls'[u] = 0
            /\ totalBytesUploaded' = totalBytesUploaded + files[u].size]_vars
  /\ [](mode = "file" =>
          /\ \A u \in Units : outcome[u] = "found" => files[u].status = "done" /\ cpCalls[u] = 0
          /\ totalBytesUploaded =
               SizeOfUnits({u \in Units : outcome[u] \in {"found", "ok"}}))

\* the upload has returned, one file was found present and never copied, another was
\* copied, and the bytes counted cover both
C37_Witness ==
  /\ pc = "returned"
  /\ mode = "file"
  /\ \E u, v \in Units :
       /\ outcome[u] = "found" /\ cpCalls[u] = 0 /\ files[u].size > 0
       /\ outcome[v] = "ok" /\ cpCalls[v] = 1
       /\ totalBytesUploaded = files[u].size + files[v].size

\* the existence check of unit u ends without having found the object: the command
\* failed or its timer ran
CheckFails(u) == proc[u] = "check" /\ outcome'[u] # "found"

\* C38: when the existence check of a unit fails, by an error of the command or by its
\* own timeout, `aws s3 cp` is started for the unit in the same step, once, and the unit
\* is not failed by the check: a failed unit has had its copy started once and failed by
\* the exit or the timeout of that copy, and a unit is never copied twice
C38_FailedCheckMeansAbsent ==
  /\ [][\A u \in Units :
          (CheckFails(u) /\ proc'[u] # "check") =>
            /\ proc'[u] = "copy"
            /\ cpCalls[u] = 0 /\ cpCalls'[u] = 1
            /\ files'[u].status = "transfer"
            /\ outcome'[u] = "none"]_vars
  /\ [][\A u \in Units :
          (mode = "file" /\ proc[u] = "copy" /\ proc'[u] = "settled") =>
            files'[u].status = (IF outcome'[u] = "ok" THEN "done" ELSE "failed")]_vars
  /\ [](mode = "file" =>
          \A u \in Units :
            /\ cpCalls[u] <= 1
            /\ files[u].status = "failed" => cpCalls[u] = 1 /\ outcome[u] \in {"exit", "timeout"}
            /\ outcome[u] \in {"ok", "exit", "timeout"} => cpCalls[u] = 1)

\* the upload with the existence check has returned: the check of a file that is at the
\* destination failed and the file was copied and is done, and another file whose check
\* failed is failed by its copy
C38_Witness ==
  /\ pc = "returned"
  /\ mode = "file"
  /\ checkExist
  /\ \E u, v \in Units :
       /\ existsInS3[u] /\ cpCalls[u] = 1 /\ outcome[u] = "ok" /\ files[u].status = "done"
       /\ cpCalls[v] = 1 /\ files[v].status = "failed"

(* ------------------ claims on a worker lost by an error ----------------- *)
\* the files recorded below directory d
RecordedBelow(d) ==
  {i \in DOMAIN fileStructure.files : IsPrefix(d, fileStructure.files[i].filepath)}

\* the worker i of the batch ends by an `error` event in this step
ErrorOf(i) == WorkerErrorStep /\ workers[i].state = "running" /\ workers'[i].state # "running"

\* C39: when a worker ends by an `error` event instead of a message, the step leaves the
\* file structure as it was and no file below the worker's directory is ever recorded,
\* the promise of the worker resolves, so that its batch ends when the other workers of
\* the batch have ended, the directories still queued stay queued and each of them is
\* given a worker later, and the scan returns
C39_WorkerErrorIsSkipped ==
  /\ [][\A i \in DOMAIN workers :
          ErrorOf(i) =>
            /\ fileStructure' = fileStructure
            /\ workers'[i].state = "resolved"
            /\ dirQueue' = dirQueue
            /\ (\A j \in DOMAIN workers \ {i} : workers[j].state = "resolved")
                 => spc' = (IF dirQueue = << >> THEN "returned" ELSE "loop")]_vars
  /\ [](\A d \in erroredDirs : RecordedBelow(d) = {})
  /\ [](spc = "returned" => started = RootSubdirectories)
  /\ (workerErrors > 0) ~> (spc = "returned")

\* a scan in which the worker of the first directory ended by an error has returned with
\* the files of a later directory recorded
C39_Witness ==
  /\ spc = "returned"
  /\ Len(RootSubdirectories) >= 2
  /\ RootSubdirectories[1] \in erroredDirs
  /\ RootSubdirectories[2] \notin erroredDirs
  /\ RecordedBelow(RootSubdirectories[2]) # {}
  /\ numWorkers = 1

====
